---- MODULE Spec2Model ----
(***************************************************************************)
(* Model of packages/next-swc/crates/core/src/react_server_components.rs:  *)
(* the React Server Components pass.  A module is a sequence of top-level  *)
(* items carrying spans; the pass collects directives and imports, then    *)
(* either rewrites the module to a module reference (server compilation of *)
(* a "client" module) or validates its imports.                            *)
(*                                                                         *)
(* A span is <<i, j, k>>: item i of the module, specifier j of that import *)
(* (0 = the item itself), and k = 1 for the imported name of an aliased    *)
(* specifier, 2 for its local name, 0 for the whole node.                  *)
(***************************************************************************)
EXTENDS Integers, Sequences, FiniteSets, TLC

VARIABLES
    pc,               \* "config": before server_components; "pass": before
                      \* visit_mut_module; "done": after it
    config,           \* the Config handed to server_components
    filename,         \* the FileName handed to server_components
    is_server,        \* ReactServerComponents.is_server
    module,           \* the Module the pass mutates: [span, body]
    comments,         \* the Comments table's leading comments at module.span.lo
    diagnostics,      \* what HANDLER has been given, in emission order
    visited_children, \* whether module.visit_mut_children_with(self) ran
    collected,        \* what collect_top_level_directives_and_imports left:
                      \* its two results and the body after retain
    module0,          \* history: the module as parsed
    comments0         \* history: the comments as parsed

vars == <<pc, config, filename, is_server, module, comments, diagnostics,
          visited_children, collected, module0, comments0>>

\* Bounds of the explored inputs.
MaxLen == 3
MaxImports == 2
MaxSpecs == 2

DUMMY_SP == <<0, 0, 0>>

\* Sequences over S of length at most n.
RECURSIVE SeqsUpTo(_, _)
SeqsUpTo(S, n) ==
    IF n = 0 THEN {<<>>}
    ELSE LET shorter == SeqsUpTo(S, n - 1)
         IN  shorter \cup {Append(s, x) : s \in {t \in shorter : Len(t) = n - 1}, x \in S}

Contains(vec, x) == \E i \in 1..Len(vec) : vec[i] = x

(***************************************************************************)
(* Configuration.                                                          *)
(***************************************************************************)
Config == {[tag |-> "All", b |-> TRUE, is_server |-> TRUE],
           [tag |-> "All", b |-> FALSE, is_server |-> FALSE]}
          \cup {[tag |-> "WithOptions", b |-> s, is_server |-> s] : s \in BOOLEAN}

truthy(c) == IF c.tag = "All" THEN c.b ELSE TRUE

\* The resolution `All(b) => b` that reads the plain boolean as the mode.
resolve_is_server_plain_bool(c) == IF c.tag = "WithOptions" THEN c.is_server ELSE c.b

resolve_is_server(c) == IF c.tag = "WithOptions" THEN c.is_server ELSE TRUE

(***************************************************************************)
(* Denylists, as built by server_components.                               *)
(***************************************************************************)
\* A server list that lost an entry.
invalid_server_imports_short == <<"client-only", "react-dom/client">>

invalid_server_imports == <<"client-only", "react-dom/client", "react-dom/server">>

invalid_client_imports == <<"server-only">>

invalid_server_react_dom_apis == <<"findDOMNode", "flushSync", "unstable_batchedUpdates">>

invalid_server_react_apis ==
    <<"Component", "createContext", "createFactory", "PureComponent",
      "useDeferredValue", "useEffect", "useImperativeHandle", "useInsertionEffect",
      "useLayoutEffect", "useReducer", "useRef", "useState", "useSyncExternalStore",
      "useTransition">>

(***************************************************************************)
(* The syntax tree.  Every node has the same fields; those that do not     *)
(* apply to a node hold "" or <<>>.                                        *)
(***************************************************************************)
\* ImportSpecifier, before the parser gives it spans.
Named(imported, imported_value, local) ==
    [type |-> "Named", imported |-> imported, imported_value |-> imported_value,
     local |-> local]

SpUseState == Named("None", "", "useState")        \* { useState }
SpFlushSync == Named("None", "", "flushSync")      \* { flushSync }
SpEffectAsX == Named("Ident", "useEffect", "x")    \* { useEffect as x }
SpXAsState == Named("Ident", "x", "useState")      \* { x as useState }
SpStrRef == Named("Str", "useRef", "r")            \* { "useRef" as r }
SpDefault == [type |-> "Default", imported |-> "None", imported_value |-> "",
              local |-> "React"]
SpNamespace == [type |-> "Namespace", imported |-> "None", imported_value |-> "",
                local |-> "ns"]

\* ModuleItem, before the parser gives it spans.
StrStmt(v) == [item |-> "Stmt", kind |-> "Expr", expr |-> "Str", value |-> v,
               src |-> "", specifiers |-> <<>>]
IdentStmt == [item |-> "Stmt", kind |-> "Expr", expr |-> "Ident", value |-> "f",
              src |-> "", specifiers |-> <<>>]
DeclStmt == [item |-> "Stmt", kind |-> "Decl", expr |-> "", value |-> "",
             src |-> "", specifiers |-> <<>>]
ExportDecl == [item |-> "ModuleDecl", kind |-> "ExportDecl", expr |-> "", value |-> "",
               src |-> "", specifiers |-> <<>>]
Import(src, specifiers) ==
    [item |-> "ModuleDecl", kind |-> "Import", expr |-> "", value |-> "",
     src |-> src, specifiers |-> specifiers]

\* The parser's spans: item i is at <<i, 0, 0>>, its specifier j at <<i, j, 0>>,
\* an aliased specifier's imported name at <<i, j, 1>> and local name at <<i, j, 2>>.
SpecifierAt(sp, i, j) ==
    [type |-> sp.type, imported |-> sp.imported, imported_value |-> sp.imported_value,
     imported_span |-> IF sp.imported = "None" THEN DUMMY_SP ELSE <<i, j, 1>>,
     local |-> sp.local,
     local_span |-> IF sp.type = "Named" /\ sp.imported # "None"
                    THEN <<i, j, 2>> ELSE <<i, j, 0>>,
     span |-> <<i, j, 0>>]

ItemAt(it, i) ==
    [item |-> it.item, kind |-> it.kind, expr |-> it.expr, value |-> it.value,
     src |-> it.src, span |-> <<i, 0, 0>>,
     specifiers |-> [j \in 1..Len(it.specifiers) |-> SpecifierAt(it.specifiers[j], i, j)]]

Parsed(items) == [i \in 1..Len(items) |-> ItemAt(items[i], i)]

(***************************************************************************)
(* The modules explored: bodies that exercise the directive scan, single   *)
(* react / react-dom imports with every specifier form, and lists of       *)
(* imports from every source the denylists name.                           *)
(***************************************************************************)
DirectiveItems ==
    {StrStmt("client"), StrStmt("use strict"), IdentStmt, DeclStmt, ExportDecl,
     Import("y", <<SpDefault>>), Import("react", <<SpUseState>>),
     Import("client-only", <<>>), Import("server-only", <<>>)}

AllSpecifiers ==
    {SpUseState, SpFlushSync, SpEffectAsX, SpXAsState, SpStrRef, SpDefault, SpNamespace}

SpecifierImports ==
    {Import(src, sps) : src \in {"react", "react-dom"},
                        sps \in SeqsUpTo(AllSpecifiers, MaxSpecs)}

SourceImports ==
    {Import(src, <<>>) : src \in {"client-only", "server-only", "react-dom/client",
                                  "react-dom/server", "y"}}
    \cup {Import(src, sps) : src \in {"react", "react-dom"},
                             sps \in {<<>>, <<SpUseState>>, <<SpUseState, SpEffectAsX>>,
                                      <<SpFlushSync, SpUseState>>}}

Bodies ==
    SeqsUpTo(DirectiveItems, MaxLen)
    \cup {<<i>> : i \in SpecifierImports}
    \cup SeqsUpTo(SourceImports, MaxImports)

Filenames == {"/app/a.js", "/app/b.js"}

\* Comments the parser may already have attached at the module's start.
ParsedComments == {<<>>, <<[span |-> <<1, 0, 0>>, kind |-> "Line", text |-> " license "]>>}

(***************************************************************************)
(* collect_top_level_directives_and_imports: one retain() pass over the    *)
(* module body.  The closure's captured variables are the fields           *)
(* finished_directives, is_client_entry and imports of the scan state; body *)
(* holds the items retained so far.                                        *)
(***************************************************************************)
ScanStart ==
    [finished_directives |-> FALSE, is_client_entry |-> FALSE, imports |-> <<>>,
     body |-> <<>>]

\* The (name, span) pair recorded for one import specifier.
\* Variant that records the local binding of an aliased specifier.
collect_specifier_local(sp) ==
    IF sp.type = "Named" THEN <<sp.local, sp.local_span>>
    ELSE IF sp.type = "Default" THEN <<"", sp.span>>
    ELSE <<"*", sp.span>>

collect_specifier(sp) ==
    IF sp.type = "Named"
    THEN IF sp.imported = "None" THEN <<sp.local, sp.local_span>>
         ELSE <<sp.imported_value, sp.imported_span>>
    ELSE IF sp.type = "Default" THEN <<"", sp.span>>
    ELSE <<"*", sp.span>>

\* The ModuleItem::Stmt arm.  keep is the closure's return value.
\* Variant in which a string literal other than "client" ends the directives.
stmt_arm_literal_ends(st, stmt) ==
    IF st.finished_directives
    THEN [finished_directives |-> TRUE, is_client_entry |-> st.is_client_entry,
          keep |-> TRUE]
    ELSE IF stmt.kind = "Expr" /\ stmt.expr = "Str" /\ stmt.value = "client"
         THEN [finished_directives |-> FALSE, is_client_entry |-> TRUE, keep |-> FALSE]
         ELSE [finished_directives |-> TRUE, is_client_entry |-> st.is_client_entry,
               keep |-> TRUE]

\* Variant that drops every "client" literal statement, wherever it stands.
stmt_arm_drops_all(st, stmt) ==
    IF stmt.kind = "Expr" /\ stmt.expr = "Str" /\ stmt.value = "client"
    THEN [finished_directives |-> st.finished_directives,
          is_client_entry |-> st.is_client_entry \/ ~st.finished_directives,
          keep |-> FALSE]
    ELSE [finished_directives |-> st.finished_directives \/ stmt.kind # "Expr"
                                  \/ stmt.expr # "Str",
          is_client_entry |-> st.is_client_entry, keep |-> TRUE]

stmt_arm(st, stmt) ==
    IF ~st.finished_directives
    THEN LET not_expr == stmt.kind # "Expr"      \* !stmt.is_expr()
         IN  IF stmt.kind = "Expr"               \* stmt.as_expr() is Some
             THEN IF stmt.expr = "Str"
                  THEN IF stmt.value = "client"
                       THEN [finished_directives |-> not_expr,
                             is_client_entry |-> TRUE, keep |-> FALSE]
                       ELSE [finished_directives |-> not_expr,
                             is_client_entry |-> st.is_client_entry, keep |-> TRUE]
                  ELSE [finished_directives |-> TRUE,
                        is_client_entry |-> st.is_client_entry, keep |-> TRUE]
             ELSE [finished_directives |-> TRUE,
                   is_client_entry |-> st.is_client_entry, keep |-> TRUE]
    ELSE [finished_directives |-> TRUE, is_client_entry |-> st.is_client_entry,
          keep |-> TRUE]

\* The ModuleDecl::Import arm: the record pushed onto imports.
import_record(import) ==
    [source |-> <<import.src, import.span>>,
     specifiers |-> [j \in 1..Len(import.specifiers) |->
                        collect_specifier(import.specifiers[j])]]

\* Whether an import ends the directives.
\* Variant in which it does not.
import_finishes_directives_not(st) == st.finished_directives

import_finishes_directives(st) == TRUE

\* The closure passed to retain, applied to one item.
retain_item(st, item) ==
    IF item.item = "Stmt"
    THEN LET r == stmt_arm(st, item)
         IN  [finished_directives |-> r.finished_directives,
              is_client_entry |-> r.is_client_entry,
              imports |-> st.imports,
              body |-> IF r.keep THEN Append(st.body, item) ELSE st.body]
    ELSE IF item.kind = "Import"
    THEN [finished_directives |-> import_finishes_directives(st),
          is_client_entry |-> st.is_client_entry,
          imports |-> Append(st.imports, import_record(item)),
          body |-> Append(st.body, item)]
    ELSE [finished_directives |-> TRUE,
          is_client_entry |-> st.is_client_entry,
          imports |-> st.imports,
          body |-> Append(st.body, item)]

RECURSIVE retain(_, _, _)
retain(st, body, i) ==
    IF i > Len(body) THEN st ELSE retain(retain_item(st, body[i]), body, i + 1)

collect_top_level_directives_and_imports(body) == retain(ScanStart, body, 1)

(***************************************************************************)
(* to_module_ref.                                                          *)
(***************************************************************************)
\* const { createProxy } = require("private-next-rsc-mod-ref-proxy")
ProxyDecl ==
    [item |-> "Stmt", kind |-> "Decl", decl |-> "Var", var_kind |-> "const",
     declare |-> FALSE, span |-> DUMMY_SP,
     decls |-> <<[span |-> DUMMY_SP, definite |-> FALSE,
                  name |-> [pat |-> "Object", span |-> DUMMY_SP, optional |-> FALSE,
                            props |-> <<[prop |-> "Assign", span |-> DUMMY_SP,
                                         key |-> "createProxy", value |-> "None"]>>],
                  init |-> [expr |-> "Call", span |-> DUMMY_SP, callee |-> "require",
                            args |-> <<[lit |-> "Str",
                                        value |-> "private-next-rsc-mod-ref-proxy"]>>]]>>]

\* module.exports = createProxy(<filepath>)
ExportsAssign(filepath) ==
    [item |-> "Stmt", kind |-> "Expr", span |-> DUMMY_SP,
     expr |-> [expr |-> "Assign", span |-> DUMMY_SP, op |-> "=",
               left |-> [expr |-> "Member", span |-> DUMMY_SP, obj |-> "module",
                         prop |-> "exports"],
               right |-> [expr |-> "Call", span |-> DUMMY_SP, callee |-> "createProxy",
                          args |-> <<[lit |-> "Str", value |-> filepath]>>]]]

ModuleRefComment ==
    [span |-> DUMMY_SP, kind |-> "Block",
     text |-> " __next_internal_client_entry_do_not_use__ "]

\* The body to_module_ref leaves: clear(), then prepend_stmts of the two items.
\* Variant that prepends without clearing.
to_module_ref_body_no_clear(body, filepath) ==
    <<ProxyDecl, ExportsAssign(filepath)>> \o body

to_module_ref_body(body, filepath) ==
    LET cleared == <<>>
    IN  <<ProxyDecl, ExportsAssign(filepath)>> \o cleared

(***************************************************************************)
(* assert_server_graph and assert_client_graph.  A diagnostic is the span  *)
(* given to struct_span_err and the three parts of its message.            *)
(***************************************************************************)
Diagnostic(span, what, name, compilation) ==
    [span |-> span, what |-> what, name |-> name, compilation |-> compilation]

\* The inner `for specifier in &import.specifiers` loop over one denylist.
RECURSIVE specifier_errors(_, _, _, _)
specifier_errors(specifiers, apis, what, j) ==
    IF j > Len(specifiers) THEN <<>>
    ELSE (IF Contains(apis, specifiers[j][1])
          THEN <<Diagnostic(specifiers[j][2], what, specifiers[j][1], "Server")>>
          ELSE <<>>)
         \o specifier_errors(specifiers, apis, what, j + 1)

\* One iteration of assert_server_graph's loop.
server_import_errors(import) ==
    LET source == import.source[1]
    IN  (IF Contains(invalid_server_imports, source)
         THEN <<Diagnostic(import.source[2], "import", source, "Server")>>
         ELSE <<>>)
        \o (IF source = "react"
            THEN specifier_errors(import.specifiers, invalid_server_react_apis,
                                  "React API", 1)
            ELSE <<>>)
        \o (IF source = "react-dom"
            THEN specifier_errors(import.specifiers, invalid_server_react_dom_apis,
                                  "ReactDOM API", 1)
            ELSE <<>>)

\* Variant that returns at the first import that produced an error.
RECURSIVE assert_server_graph_first_only(_)
assert_server_graph_first_only(imps) ==
    IF imps = <<>> THEN <<>>
    ELSE IF server_import_errors(Head(imps)) # <<>>
         THEN server_import_errors(Head(imps))
         ELSE assert_server_graph_first_only(Tail(imps))

RECURSIVE assert_server_graph(_)
assert_server_graph(imps) ==
    IF imps = <<>> THEN <<>>
    ELSE server_import_errors(Head(imps)) \o assert_server_graph(Tail(imps))

\* Variant that applies the server rules to the client compilation as well.
assert_client_graph_server_rules(imps) ==
    assert_server_graph(imps)

RECURSIVE assert_client_graph(_)
assert_client_graph(imps) ==
    IF imps = <<>> THEN <<>>
    ELSE (IF Contains(invalid_client_imports, Head(imps).source[1])
          THEN <<Diagnostic(Head(imps).source[2], "import", Head(imps).source[1],
                            "Client")>>
          ELSE <<>>)
         \o assert_client_graph(Tail(imps))

(***************************************************************************)
(* visit_mut_module: what one call does to the body, the handler and the   *)
(* comments.  The visitor overrides visit_mut_module only, so the walk of  *)
(* the children changes nothing and emits nothing.                         *)
(***************************************************************************)
\* Variant that validates before it looks at the directive.
visit_mut_module_asserts_first(body, server, filepath) ==
    LET c == collect_top_level_directives_and_imports(body)
    IN  IF server
        THEN IF ~c.is_client_entry
             THEN [collected |-> c, body |-> c.body,
                   errors |-> assert_server_graph(c.imports),
                   leading |-> <<>>, visited_children |-> TRUE]
             ELSE [collected |-> c, body |-> to_module_ref_body(c.body, filepath),
                   errors |-> assert_server_graph(c.imports),
                   leading |-> <<ModuleRefComment>>, visited_children |-> FALSE]
        ELSE [collected |-> c, body |-> c.body,
              errors |-> assert_client_graph(c.imports),
              leading |-> <<>>, visited_children |-> TRUE]

visit_mut_module(body, server, filepath) ==
    LET c == collect_top_level_directives_and_imports(body)
    IN  IF server
        THEN IF ~c.is_client_entry
             THEN [collected |-> c, body |-> c.body,
                   errors |-> assert_server_graph(c.imports),
                   leading |-> <<>>, visited_children |-> TRUE]
             ELSE [collected |-> c, body |-> to_module_ref_body(c.body, filepath),
                   errors |-> <<>>,
                   leading |-> <<ModuleRefComment>>, visited_children |-> FALSE]
        ELSE [collected |-> c, body |-> c.body,
              errors |-> assert_client_graph(c.imports),
              leading |-> <<>>, visited_children |-> TRUE]

(***************************************************************************)
(* The state machine: server_components builds the pass, then the folder   *)
(* calls visit_mut_module on the module once.                              *)
(***************************************************************************)
Init ==
    /\ pc = "config"
    /\ config \in Config
    /\ filename \in Filenames
    /\ \E items \in Bodies : module0 = [span |-> <<1, 0, 0>>, body |-> Parsed(items)]
    /\ module = module0
    /\ comments0 \in ParsedComments
    /\ comments = comments0
    /\ diagnostics = <<>>
    /\ is_server = FALSE
    /\ visited_children = FALSE
    /\ collected = [is_client_entry |-> FALSE, imports |-> <<>>, body |-> <<>>]

ServerComponents ==
    /\ pc = "config"
    /\ is_server' = resolve_is_server(config)
    /\ pc' = "pass"
    /\ UNCHANGED <<config, filename, module, comments, diagnostics, visited_children,
                   collected, module0, comments0>>

VisitMutModule ==
    /\ pc = "pass"
    /\ LET r == visit_mut_module(module.body, is_server, filename)
       IN  /\ module' = [module EXCEPT !.body = r.body]
           /\ diagnostics' = diagnostics \o r.errors
           /\ comments' = comments \o r.leading
           /\ visited_children' = r.visited_children
           /\ collected' = [is_client_entry |-> r.collected.is_client_entry,
                            imports |-> r.collected.imports,
                            body |-> r.collected.body]
    /\ pc' = "done"
    /\ UNCHANGED <<config, filename, is_server, module0, comments0>>

Next == ServerComponents \/ VisitMutModule

Spec == Init /\ [][Next]_vars

(***************************************************************************)
(* Vocabulary of the properties, stated on the module as parsed.           *)
(***************************************************************************)
Done == pc = "done"

\* The server compilation met a "client" module and replaced it.
Rewritten == Done /\ is_server /\ collected.is_client_entry

IsStrLit(it) == it.item = "Stmt" /\ it.kind = "Expr" /\ it.expr = "Str"

IsClientLit(it) == IsStrLit(it) /\ it.value = "client"

IsImport(it) == it.item = "ModuleDecl" /\ it.kind = "Import"

\* Items 1..i are all string-literal expression statements.
InLeadingRun(b, i) == \A j \in 1..i : IsStrLit(b[j])

\* The "client" literals that stand in the leading run of string literals.
Directives(b) == {i \in DOMAIN b : IsClientLit(b[i]) /\ InLeadingRun(b, i)}

Occurrences(seq, x) == Cardinality({k \in DOMAIN seq : seq[k] = x})

ServerDeniedSources == {"client-only", "react-dom/client", "react-dom/server"}

ReactDenied ==
    {"Component", "createContext", "createFactory", "PureComponent", "useDeferredValue",
     "useEffect", "useImperativeHandle", "useInsertionEffect", "useLayoutEffect",
     "useReducer", "useRef", "useState", "useSyncExternalStore", "useTransition"}

ReactDomDenied == {"findDOMNode", "flushSync", "unstable_batchedUpdates"}

\* The name a specifier imports from the source module ("none" for default and
\* namespace specifiers, which import no named binding).
ImportedName(sp) ==
    IF sp.type # "Named" THEN "none"
    ELSE IF sp.imported = "None" THEN sp.local ELSE sp.imported_value

DeniedApis(src) ==
    IF src = "react" THEN ReactDenied
    ELSE IF src = "react-dom" THEN ReactDomDenied ELSE {}

ApiKind(src) == IF src = "react" THEN "React API" ELSE "ReactDOM API"

\* Specifiers of an import that name a denied API of its source.
DeniedSpecifiers(it) ==
    {j \in DOMAIN it.specifiers : ImportedName(it.specifiers[j]) \in DeniedApis(it.src)}

SourceDenied(src) ==
    \/ is_server /\ src \in ServerDeniedSources
    \/ ~is_server /\ src = "server-only"

\* Source order of two spans, by item and then by specifier.
Before(s, t) == s[1] < t[1] \/ (s[1] = t[1] /\ s[2] < t[2])

C2_DirectiveContiguity ==
    Done =>
        LET b == module0.body
        IN  /\ \A i \in DOMAIN b :
                   (IsClientLit(b[i]) /\ ~InLeadingRun(b, i)) =>
                       Occurrences(collected.body, b[i]) = 1
            /\ Directives(b) = {} => ~collected.is_client_entry
            /\ Directives(b) = {} => module.body = b

\* import ...; "client"; was scanned: not a client entry, literal retained.
C2_Witness ==
    /\ Done
    /\ Len(module0.body) >= 2
    /\ IsImport(module0.body[1])
    /\ IsClientLit(module0.body[2])
    /\ ~collected.is_client_entry
    /\ module.body = module0.body

(***************************************************************************)
(* C3.  The module reference left by to_module_ref.                        *)
(***************************************************************************)
\* C3: whatever the original body, a rewritten module has exactly two items:
\* `const { createProxy } = require("private-next-rsc-mod-ref-proxy")` and
\* `module.exports = createProxy(<filepath>)`, every field of which is fixed
\* but the filepath argument; and the pass added exactly one leading comment,
\* a block comment with the sentinel text, to those the parser attached.
C3_ModuleRef ==
    Rewritten =>
        /\ Len(module.body) = 2
        /\ LET d == module.body[1]
               e == module.body[2]
           IN  /\ d.item = "Stmt" /\ d.kind = "Decl" /\ d.decl = "Var"
               /\ d.var_kind = "const" /\ ~d.declare /\ d.span = DUMMY_SP
               /\ Len(d.decls) = 1
               /\ d.decls[1].name.pat = "Object"
               /\ Len(d.decls[1].name.props) = 1
               /\ d.decls[1].name.props[1].prop = "Assign"
               /\ d.decls[1].name.props[1].key = "createProxy"
               /\ d.decls[1].name.props[1].value = "None"
               /\ d.decls[1].init.expr = "Call"
               /\ d.decls[1].init.callee = "require"
               /\ d.decls[1].init.args
                      = <<[lit |-> "Str", value |-> "private-next-rsc-mod-ref-proxy"]>>
               /\ e.item = "Stmt" /\ e.kind = "Expr" /\ e.span = DUMMY_SP
               /\ e.expr.expr = "Assign" /\ e.expr.op = "="
               /\ e.expr.left.expr = "Member"
               /\ e.expr.left.obj = "module" /\ e.expr.left.prop = "exports"
               /\ e.expr.right.expr = "Call" /\ e.expr.right.callee = "createProxy"
               /\ e.expr.right.args = <<[lit |-> "Str", value |-> filename]>>
        /\ Len(comments) = Len(comments0) + 1
        /\ SubSeq(comments, 1, Len(comments0)) = comments0
        /\ comments[Len(comments)].kind = "Block"
        /\ comments[Len(comments)].text = " __next_internal_client_entry_do_not_use__ "

\* A "client" module of three or more items, with a parsed comment, was rewritten.
C3_Witness ==
    /\ Rewritten
    /\ Len(module0.body) >= 3
    /\ Len(collected.body) >= 2
    /\ comments0 # <<>>
    /\ Len(module.body) = 2

(***************************************************************************)
(* C4.  The rewrite branch is terminal.                                    *)
(***************************************************************************)
\* C4: the server compilation of a client entry emits no diagnostic, whatever
\* the module imports, and does not walk the module's children.
C4_RewriteTerminal ==
    Rewritten => (diagnostics = <<>> /\ ~visited_children)

\* A rewritten module imported `client-only`, which the server rules deny.
C4_Witness ==
    /\ Rewritten
    /\ \E i \in DOMAIN module0.body :
           IsImport(module0.body[i]) /\ module0.body[i].src = "client-only"
    /\ \E i \in DOMAIN module0.body :
           IsImport(module0.body[i]) /\ DeniedSpecifiers(module0.body[i]) # {}
    /\ diagnostics = <<>>

(***************************************************************************)
(* C5.  Denied sources.                                                    *)
(***************************************************************************)
\* C5: in a module that was not rewritten, every import declaration has exactly
\* one source-level diagnostic, at the import's span and naming its source and
\* the compilation, if its source is denied in the pass's mode (`client-only`,
\* `react-dom/client`, `react-dom/server` for the server; `server-only` for the
\* client), and none otherwise.
C5_DeniedSources ==
    (Done /\ ~Rewritten) =>
        \A i \in DOMAIN module0.body :
            IsImport(module0.body[i]) =>
                LET it == module0.body[i]
                    at == {k \in DOMAIN diagnostics :
                              diagnostics[k].what = "import" /\ diagnostics[k].span[1] = i}
                IN  /\ Cardinality(at) = IF SourceDenied(it.src) THEN 1 ELSE 0
                    /\ \A k \in at :
                           /\ diagnostics[k].span = it.span
                           /\ diagnostics[k].name = it.src
                           /\ diagnostics[k].compilation
                                  = IF is_server THEN "Server" ELSE "Client"

\* The server compilation checked `react-dom/server` and `server-only`: one error.
C5_Witness ==
    /\ Done /\ is_server /\ ~collected.is_client_entry
    /\ \E i \in DOMAIN module0.body : module0.body[i].src = "react-dom/server"
    /\ \E i \in DOMAIN module0.body : module0.body[i].src = "server-only"
    /\ Len(diagnostics) = 1

(***************************************************************************)
(* C6.  One diagnostic per denied specifier.                               *)
(***************************************************************************)
\* C6: in the server compilation of a module that is not a client entry, an
\* import from `react` or `react-dom` has as many API diagnostics as it has
\* specifiers whose imported name is denied for that source, one per such
\* specifier, inside that specifier's span and not at the import's span; the
\* name is the imported one under an alias; default and namespace specifiers
\* are never reported, and imports from other sources have no API diagnostic.
C6_PerSpecifier ==
    (Done /\ is_server /\ ~collected.is_client_entry) =>
        \A i \in DOMAIN module0.body :
            IsImport(module0.body[i]) =>
                LET it == module0.body[i]
                    api == {k \in DOMAIN diagnostics :
                               diagnostics[k].what # "import" /\ diagnostics[k].span[1] = i}
                IN  /\ Cardinality(api) = Cardinality(DeniedSpecifiers(it))
                    /\ \A j \in DeniedSpecifiers(it) :
                           \E k \in api :
                               /\ diagnostics[k].span[2] = j
                               /\ diagnostics[k].span # it.span
                               /\ diagnostics[k].name = ImportedName(it.specifiers[j])
                               /\ diagnostics[k].what = ApiKind(it.src)
                               /\ \A l \in api : diagnostics[l].span[2] = j => l = k
                    /\ \A k \in api :
                           it.specifiers[diagnostics[k].span[2]].type = "Named"

\* import { useEffect as x, x as useState } from "react": one error, for useEffect.
C6_Witness ==
    /\ Done /\ is_server /\ ~collected.is_client_entry
    /\ Len(module0.body) = 1
    /\ module0.body[1].src = "react"
    /\ Len(module0.body[1].specifiers) = 2
    /\ module0.body[1].specifiers[1].imported_value = "useEffect"
    /\ module0.body[1].specifiers[2].local = "useState"
    /\ module0.body[1].specifiers[2].imported_value = "x"
    /\ Len(diagnostics) = 1
    /\ diagnostics[1].name = "useEffect"
    /\ diagnostics[1].span = <<1, 1, 1>>

(***************************************************************************)
(* C7.  Mode isolation.                                                    *)
(***************************************************************************)
\* C7: the client compilation emits only source-level diagnostics for
\* `server-only`, one per such import: named imports from `react` and
\* `react-dom` and imports of the server-denied sources produce none, also in a
\* module that carries the "client" directive.
C7_ModeIsolation ==
    (Done /\ ~is_server) =>
        /\ \A k \in DOMAIN diagnostics :
               /\ diagnostics[k].what = "import"
               /\ diagnostics[k].name = "server-only"
               /\ diagnostics[k].compilation = "Client"
               /\ module0.body[diagnostics[k].span[1]].src = "server-only"
        /\ Len(diagnostics)
               = Cardinality({i \in DOMAIN module0.body :
                                 IsImport(module0.body[i])
                                 /\ module0.body[i].src = "server-only"})

\* The client compilation of "client"; import { useState } from "react"; ...
\* emitted nothing.
C7_Witness ==
    /\ Done /\ ~is_server
    /\ collected.is_client_entry
    /\ \E i \in DOMAIN module0.body :
           IsImport(module0.body[i]) /\ module0.body[i].src = "react"
           /\ DeniedSpecifiers(module0.body[i]) # {}
    /\ diagnostics = <<>>
    /\ visited_children

(***************************************************************************)
(* C8.  Mode resolution.                                                   *)
(***************************************************************************)
\* C8 as amended: the pass runs in server mode exactly when the configuration
\* is a plain boolean (true or false) or an object whose isServer is true, and
\* in client mode exactly when it is an object whose isServer is false.
C8_ModeResolution ==
    pc # "config" =>
        (is_server <=> (config.tag = "All" \/ (config.tag = "WithOptions" /\ config.is_server)))

\* C8 as stated: the plain boolean is the mode, so plain false is client mode.
C8_AsStated ==
    pc # "config" =>
        (is_server <=> IF config.tag = "All" THEN config.b ELSE config.is_server)

\* The pass was built from the plain boolean false and runs in server mode,
\* although the configuration is not truthy.
C8_Witness ==
    /\ pc = "pass"
    /\ config.tag = "All" /\ ~config.b
    /\ ~truthy(config)
    /\ is_server

(***************************************************************************)
(* C9.  Frame of the collector and the validators.                         *)
(***************************************************************************)
\* C9: when the module is not rewritten, the final body is the parsed body
\* without the "client" literals of the leading run of string literals, every
\* other item being kept once, unchanged and in order; it is the body the
\* collector left (the validators change nothing); and the collected imports
\* are the import declarations in source order.
C9_Frame ==
    (Done /\ ~Rewritten) =>
        LET b == module0.body
            kept == SelectSeq(b, LAMBDA it : it.span[1] \notin Directives(b))
            decls == SelectSeq(b, IsImport)
        IN  /\ module.body = kept
            /\ collected.body = module.body
            /\ module.span = module0.span
            /\ comments = comments0
            /\ Len(collected.imports) = Len(decls)
            /\ \A k \in DOMAIN decls :
                   /\ collected.imports[k].source = <<decls[k].src, decls[k].span>>
                   /\ Len(collected.imports[k].specifiers) = Len(decls[k].specifiers)

\* "client"; import "server-only"; "client"; in the client compilation: the
\* first literal is gone, the second stays, and an error was emitted.
C9_Witness ==
    /\ Done /\ ~is_server
    /\ Len(module0.body) = 3
    /\ IsClientLit(module0.body[1])
    /\ IsImport(module0.body[2]) /\ module0.body[2].src = "server-only"
    /\ IsClientLit(module0.body[3])
    /\ module.body = <<module0.body[2], module0.body[3]>>
    /\ Len(diagnostics) = 1

(***************************************************************************)
(* C10.  Accumulation and order of the diagnostics.                        *)
(***************************************************************************)
\* C10: in a module that is not rewritten every import declaration is checked,
\* also after earlier ones produced diagnostics: each import of a denied source
\* and each denied specifier has its diagnostic; and the diagnostics are in
\* source order: by import declaration, then by specifier.
C10_AccumulationOrder ==
    (Done /\ ~Rewritten) =>
        /\ \A k, l \in DOMAIN diagnostics :
               k < l => Before(diagnostics[k].span, diagnostics[l].span)
        /\ \A i \in DOMAIN module0.body :
               IsImport(module0.body[i]) =>
                   /\ SourceDenied(module0.body[i].src) =>
                          \E k \in DOMAIN diagnostics :
                              diagnostics[k].span = module0.body[i].span
                   /\ is_server =>
                          \A j \in DeniedSpecifiers(module0.body[i]) :
                              \E k \in DOMAIN diagnostics :
                                  /\ diagnostics[k].span[1] = i
                                  /\ diagnostics[k].span[2] = j

\* Two imports, both in error, the first with two denied specifiers: three
\* diagnostics.
C10_Witness ==
    /\ Done /\ is_server /\ ~collected.is_client_entry
    /\ Len(module0.body) = 2
    /\ Cardinality(DeniedSpecifiers(module0.body[1])) = 2
    /\ module0.body[2].src = "client-only"
    /\ Len(diagnostics) = 3
    /\ diagnostics[3].span = <<2, 0, 0>>

====
